---- MODULE Spec2Model ----
(***************************************************************************)
(* Model of the prod3d product configurator: the Configurator class        *)
(* (variant discovery, per-category visibility) with its load pipeline,    *)
(* the Save/Load handlers of the client and the in-memory configuration    *)
(* store of the server.                                                    *)
(*                                                                         *)
(* Strings are modelled as sequences of one-character strings so that the  *)
(* substring tests and regular-expression replacements of the source are   *)
(* computed, not assumed.                                                  *)
(***************************************************************************)
EXTENDS Integers, Sequences, FiniteSets, TLC

(***************************************************************************)
(* Bounds of the model.                                                    *)
(***************************************************************************)
MaxList == 2        \* longest selection list passed to loadModel
MaxInflight == 2    \* loads that may be in flight together
MaxSaves == 2       \* configurations the store may hold
MaxClock == 2       \* largest value of the server clock
MaxRecolor == 2     \* linear blends applied to one loaded model

(***************************************************************************)
(* JavaScript string primitives on character sequences.                    *)
(***************************************************************************)
Upper == <<"A","B","C","D","E","F","G","H","I","J","K","L","M",
           "N","O","P","Q","R","S","T","U","V","W","X","Y","Z">>
Lower == <<"a","b","c","d","e","f","g","h","i","j","k","l","m",
           "n","o","p","q","r","s","t","u","v","w","x","y","z">>
Digits == <<"0","1","2","3","4","5","6","7","8","9">>

LowerChar(c) ==
  IF \E i \in 1..26 : Upper[i] = c
    THEN Lower[CHOOSE i \in 1..26 : Upper[i] = c]
    ELSE c

\* String.prototype.toLowerCase
ToLowerCase(s) == [i \in 1..Len(s) |-> LowerChar(s[i])]

\* sub occurs in s at position i (1-based)
OccursAt(s, sub, i) ==
  /\ i >= 1
  /\ i + Len(sub) - 1 <= Len(s)
  /\ SubSeq(s, i, i + Len(sub) - 1) = sub

\* String.prototype.includes
Includes(s, sub) == \E i \in 1..(Len(s) + 1) : OccursAt(s, sub, i)

\* the characters of s from position i on (s.slice(i-1))
Drop(s, i) == SubSeq(s, i, Len(s))

\* the separator class [_-] of the regular expressions
IsSep(c) == c \in {"_", "-"}

\* s.replace(/^kw[_-]?/i, "")
StripPrefix(s, kw) ==
  IF OccursAt(ToLowerCase(s), kw, 1)
    THEN LET rest == Drop(s, Len(kw) + 1)
         IN  IF Len(rest) > 0 /\ IsSep(rest[1]) THEN Tail(rest) ELSE rest
    ELSE s

\* s.replace(/[_-]?kw$/i, "")
StripSuffix(s, kw) ==
  LET cut == Len(s) - Len(kw)
  IN  IF cut >= 0 /\ OccursAt(ToLowerCase(s), kw, cut + 1)
        THEN IF cut >= 1 /\ IsSep(s[cut])
               THEN SubSeq(s, 1, cut - 1)
               ELSE SubSeq(s, 1, cut)
        ELSE s

\* s.replace(/kw/i, ""): the first occurrence only
RemoveFirst(s, kw) ==
  LET l == ToLowerCase(s)
  IN  IF Includes(l, kw)
        THEN LET i == CHOOSE j \in 1..Len(s) :
                        /\ OccursAt(l, kw, j)
                        /\ \A h \in 1..(j - 1) : ~OccursAt(l, kw, h)
             IN  SubSeq(s, 1, i - 1) \o Drop(s, i + Len(kw))
        ELSE s

\* s.replace(/^[_-]|[_-]$/g, "")
TrimSep(s) ==
  LET a == IF Len(s) > 0 /\ IsSep(s[1]) THEN Tail(s) ELSE s
  IN  IF Len(a) > 0 /\ IsSep(a[Len(a)]) THEN SubSeq(a, 1, Len(a) - 1) ELSE a

\* the decimal digits of a natural number (template literal `${n}`)
RECURSIVE NatToStr(_)
NatToStr(n) ==
  IF n < 10 THEN <<Digits[n + 1]>>
            ELSE NatToStr(n \div 10) \o <<Digits[(n % 10) + 1]>>

kwHandle == <<"h","a","n","d","l","e">>
kwHead == <<"h","e","a","d">>
kwScrewhead == <<"s","c","r","e","w","h","e","a","d">>
strDefault == <<"d","e","f","a","u","l","t">>
strVariation == <<"v","a","r","i","a","t","i","o","n","_">>
strType == <<"t","y","p","e","_">>
strOne == <<"o","n","e">>
strFlat == <<"f","l","a","t">>
strCross == <<"c","r","o","s","s">>

(***************************************************************************)
(* NameClassifier: the variant key of a part name.  size is the number of  *)
(* variants the category's map holds when the part is visited.             *)
(***************************************************************************)
\* the handle key synthesized from the size alone in place of size + 1
extractHandleTypeFromSize(meshName, size) ==
  LET name == ToLowerCase(meshName)
      t1 == StripSuffix(StripPrefix(name, kwHandle), kwHandle)
      t2 == IF t1 = <<>> \/ t1 = ToLowerCase(name)
              THEN TrimSep(RemoveFirst(meshName, kwHandle))
              ELSE t1
      t3 == IF t2 = <<>> THEN strVariation \o NatToStr(size) ELSE t2
  IN  IF t3 = <<>> THEN strDefault ELSE t3

extractHandleType(meshName, size) ==
  LET name == ToLowerCase(meshName)
      t1 == StripSuffix(StripPrefix(name, kwHandle), kwHandle)
      t2 == IF t1 = <<>> \/ t1 = ToLowerCase(name)
              THEN TrimSep(RemoveFirst(meshName, kwHandle))
              ELSE t1
      t3 == IF t2 = <<>> THEN strVariation \o NatToStr(size + 1) ELSE t2
  IN  IF t3 = <<>> THEN strDefault ELSE t3

extractScrewheadType(meshName, size) ==
  LET name == ToLowerCase(meshName)
      t1 == StripSuffix(
              StripPrefix(
                StripSuffix(StripPrefix(name, kwHead), kwHead),
                kwScrewhead),
              kwScrewhead)
      t2 == IF t1 = <<>> \/ t1 = ToLowerCase(name)
              THEN TrimSep(RemoveFirst(RemoveFirst(meshName, kwHead),
                                       kwScrewhead))
              ELSE t1
      t3 == IF t2 = <<>> THEN strType \o NatToStr(size + 1) ELSE t2
  IN  IF t3 = <<>> THEN strDefault ELSE t3

(***************************************************************************)
(* The assets a URL may resolve to: the names of the objects of the scene  *)
(* graph in traversal order.  Asset 1 is the screwdriver the client loads  *)
(* at start-up and names in every saved configuration.                     *)
(***************************************************************************)
\* Handle_1, Handle_Curved, HeadFlat, Shaft_Body, Grip
Asset1 ==
  << <<"H","a","n","d","l","e","_","1">>,
     <<"H","a","n","d","l","e","_","C","u","r","v","e","d">>,
     <<"H","e","a","d","F","l","a","t">>,
     <<"S","h","a","f","t","_","B","o","d","y">>,
     <<"G","r","i","p">> >>
\* handle, Grip_Handle, Head_Hex, Head_Cross, Rod
Asset2 ==
  << <<"h","a","n","d","l","e">>,
     <<"G","r","i","p","_","H","a","n","d","l","e">>,
     <<"H","e","a","d","_","H","e","x">>,
     <<"H","e","a","d","_","C","r","o","s","s">>,
     <<"R","o","d">> >>
\* Body, Handle_A, handle-a, NewHandleX, Head_Handle
Asset3 ==
  << <<"B","o","d","y">>,
     <<"H","a","n","d","l","e","_","A">>,
     <<"h","a","n","d","l","e","-","a">>,
     <<"N","e","w","H","a","n","d","l","e","X">>,
     <<"H","e","a","d","_","H","a","n","d","l","e">> >>
\* Scene, Cylinder_Rod, Rod_Handle, Tip, Cylinder
Asset4 ==
  << <<"S","c","e","n","e">>,
     <<"C","y","l","i","n","d","e","r","_","R","o","d">>,
     <<"R","o","d","_","H","a","n","d","l","e">>,
     <<"T","i","p">>,
     <<"C","y","l","i","n","d","e","r">> >>
Catalogue == <<Asset1, Asset2, Asset3, Asset4>>
Urls == 1..Len(Catalogue)

\* names for the objects of further scenes: handle, HANDLE, head, Head_Flat,
\* Head_Cross, Head_Default, Body
PoolNames ==
  << <<"h","a","n","d","l","e">>,
     <<"H","A","N","D","L","E">>,
     <<"h","e","a","d">>,
     <<"H","e","a","d","_","F","l","a","t">>,
     <<"H","e","a","d","_","C","r","o","s","s">>,
     <<"H","e","a","d","_","D","e","f","a","u","l","t">>,
     <<"B","o","d","y">> >>

\* objects per further scene
SceneLen == 3

\* the n-th scene of SceneLen objects named from PoolNames, n from 0
PoolScene(n) ==
  [k \in 1..SceneLen |->
     PoolNames[((n \div (Len(PoolNames) ^ (k - 1))) % Len(PoolNames)) + 1]]

PoolScenes == [n \in 1..(Len(PoolNames) ^ SceneLen) |-> PoolScene(n - 1)]

\* every scene a URL may resolve to: the catalogue, then the further scenes
Assets == Catalogue \o PoolScenes
SceneUrls == 1..Len(Assets)
DefaultUrl == 1
NoModel == 0
\* a key no asset of the catalogue yields
UnknownKey == <<"z","z">>

(***************************************************************************)
(* Materials.  A colour is a triple of channels; a channel value v stands  *)
(* for v / One, so that the linear blends of the source are computed       *)
(* exactly for MaxRecolor blends in a row.  Metalness, roughness and       *)
(* opacity are counted in tenths.                                          *)
(***************************************************************************)
StrengthDen == 20                       \* a strength s stands for s / 20
Unit == StrengthDen ^ (MaxRecolor + 1)  \* the channel value of 1 / 255
One == 255 * Unit                       \* the channel value of 1.0

\* n tenths as a channel value
Tenths(n) == (n * One) \div 10

\* new THREE.Color("#rrggbb") / new THREE.Color(0xrrggbb)
Color(hex) == [k \in 1..3 |-> hex[k] * Unit]

\* color.getHexString(): every channel rounded to one of 0..255
getHexString(color) ==
  [k \in 1..3 |-> (2 * color[k] + Unit) \div (2 * Unit)]

\* a.clone().lerp(b, alpha): a + (b - a) * alpha per channel
lerp(a, b, alpha) ==
  [k \in 1..3 |-> a[k] + ((b[k] - a[k]) * alpha) \div StrengthDen]

\* (r + g + b) / 3 < 0.3
\* the comparison with <= in place of <
isDarkOrEqual(color) == 10 * (color[1] + color[2] + color[3]) <= 9 * One

isDark(color) == 10 * (color[1] + color[2] + color[3]) < 9 * One

\* x || d for a number x
OrElse(x, d) == IF x = 0 THEN d ELSE x

Max(a, b) == IF a >= b THEN a ELSE b

hex888888 == <<136, 136, 136>>
hexaaaaaa == <<170, 170, 170>>
hexffffff == <<255, 255, 255>>
NoMap == 0

strGrip == <<"g","r","i","p">>
strCylinder == <<"c","y","l","i","n","d","e","r">>
strShaft == <<"s","h","a","f","t">>
strBody == <<"b","o","d","y">>
strBarrel == <<"b","a","r","r","e","l">>
strRod == <<"r","o","d">>
strStem == <<"s","t","e","m">>

isShaft(childName) ==
  /\ ~Includes(childName, kwHandle)
  /\ ~Includes(childName, kwHead)
  /\ ~Includes(childName, strGrip)
  /\ ~Includes(childName, strCylinder)

isShaftExplicit(childName) ==
  \/ Includes(childName, strShaft)
  \/ Includes(childName, strBody)
  \/ Includes(childName, strBarrel)
  \/ Includes(childName, strRod)
  \/ Includes(childName, strStem)

\* the test with the inclusion keywords left out
shaftTestNoInclusion(name) == isShaft(ToLowerCase(name))

\* if (isShaft || isShaftExplicit) on the lower-cased name of the child
shaftTest(name) ==
  isShaft(ToLowerCase(name)) \/ isShaftExplicit(ToLowerCase(name))

\* what an object of the scene carries: kind "none" for an object that is
\* no Mesh, "standard" for a MeshStandardMaterial, "other" for any other
Material(kind, color, metalness, roughness, map, transparent, opacity) ==
  [kind |-> kind, color |-> color, metalness |-> metalness,
   roughness |-> roughness, map |-> map, transparent |-> transparent,
   opacity |-> opacity]

NotMesh == Material("none", <<0, 0, 0>>, 0, 0, NoMap, FALSE, 10)

\* new THREE.MeshStandardMaterial({color, metalness, roughness, map,
\* transparent: false, opacity: 1.0})
MeshStandardMaterial(color, metalness, roughness, map) ==
  Material("standard", color, metalness, roughness, map, FALSE, 10)

isMesh(mat) == mat.kind # "none"

isStandard(mat) == mat.kind = "standard"

\* a colour given by the tenths of its channels
Rgb(r, g, b) == <<Tenths(r), Tenths(g), Tenths(b)>>

\* the material of every object of a further scene
plainMaterial == Material("standard", Rgb(5, 5, 5), 0, 5, NoMap, FALSE, 10)

\* the materials the loader gives the objects of each asset, in traversal
\* order
Materials1 ==
  << Material("standard", Rgb(4, 2, 1), 0, 8, NoMap, FALSE, 10),
     Material("standard", Rgb(4, 2, 1), 0, 8, NoMap, FALSE, 10),
     Material("standard", Rgb(8, 8, 8), 10, 2, NoMap, FALSE, 10),
     Material("standard", Rgb(1, 1, 1), 5, 0, 1, FALSE, 10),
     Material("standard", Rgb(0, 0, 0), 0, 9, NoMap, FALSE, 10) >>
Materials2 ==
  << Material("standard", Rgb(4, 2, 1), 0, 8, NoMap, FALSE, 10),
     Material("standard", Rgb(2, 2, 2), 0, 9, NoMap, FALSE, 10),
     Material("standard", Rgb(8, 8, 8), 10, 2, NoMap, FALSE, 10),
     Material("standard", Rgb(8, 8, 8), 10, 2, NoMap, FALSE, 10),
     Material("standard", Rgb(3, 3, 3), 0, 4, NoMap, TRUE, 5) >>
Materials3 ==
  << NotMesh,
     Material("other", Rgb(4, 2, 1), 0, 0, NoMap, FALSE, 10),
     Material("standard", Rgb(4, 2, 1), 0, 8, NoMap, FALSE, 10),
     Material("standard", Rgb(9, 9, 9), 0, 8, NoMap, FALSE, 10),
     Material("standard", Rgb(8, 8, 8), 10, 2, NoMap, FALSE, 10) >>
Materials4 ==
  << NotMesh,
     Material("standard", Rgb(2, 3, 4), 3, 5, 1, FALSE, 10),
     Material("standard", Rgb(6, 4, 2), 0, 1, NoMap, FALSE, 10),
     Material("other", Rgb(5, 5, 5), 0, 0, NoMap, FALSE, 10),
     Material("standard", Rgb(5, 5, 5), 2, 6, NoMap, FALSE, 10) >>
Materials == <<Materials1, Materials2, Materials3, Materials4>>

\* the materials of gltf.scene as the loader hands it over
freshMaterial(url) ==
  IF url \in DOMAIN Materials
    THEN Materials[url]
    ELSE [i \in 1..Len(Assets[url]) |-> plainMaterial]

\* the material updateMaterialWithOpacity gives a qualifying mesh
blendedMaterial(mat, color, colorStrength) ==
  LET originalColor == IF isStandard(mat) THEN mat.color ELSE Color(hex888888)
      originalMetalness == IF isStandard(mat) THEN OrElse(mat.metalness, 0)
                                              ELSE 0
      originalRoughness == IF isStandard(mat) THEN OrElse(mat.roughness, 5)
                                              ELSE 5
      originalMap == IF isStandard(mat) THEN mat.map ELSE NoMap
      newColor == Color(color)
      finalColor == IF isDark(originalColor)
                      THEN lerp(Color(hexaaaaaa), newColor, colorStrength)
                      ELSE lerp(originalColor, newColor, colorStrength)
  IN  MeshStandardMaterial(finalColor, originalMetalness, originalRoughness,
                           originalMap)

\* the bright material with the roughness capped at the 0.3 default
brightMaterialCapped(mat, color, colorStrength) ==
  LET finalColor == lerp(Color(hexffffff), Color(color), colorStrength)
      originalRoughness == IF isStandard(mat) /\ mat.roughness < 3
                             THEN Max(2, OrElse(mat.roughness, 3))
                             ELSE 3
      originalMap == IF isStandard(mat) THEN mat.map ELSE NoMap
  IN  MeshStandardMaterial(finalColor, 0, originalRoughness, originalMap)

\* the material updateMaterialBright gives a qualifying mesh
brightMaterial(mat, color, colorStrength) ==
  LET finalColor == lerp(Color(hexffffff), Color(color), colorStrength)
      originalRoughness == IF isStandard(mat)
                             THEN Max(2, OrElse(mat.roughness, 3))
                             ELSE 3
      originalMap == IF isStandard(mat) THEN mat.map ELSE NoMap
  IN  MeshStandardMaterial(finalColor, 0, originalRoughness, originalMap)

\* the material updateMaterialPure gives a qualifying mesh
pureMaterial(mat, color, preserveMetalness) ==
  LET currentMetalness == IF preserveMetalness /\ isStandard(mat)
                            THEN mat.metalness
                            ELSE 0
  IN  MeshStandardMaterial(Color(color), currentMetalness, 2, NoMap)

\* the material updateMaterialMetalness leaves on a qualifying mesh
metalnessMaterial(mat, metalness) ==
  IF isStandard(mat) THEN [mat EXCEPT !.metalness = metalness] ELSE mat

\* the objects of each asset whose name passes the shaft test
shaftNamed ==
  [url \in Urls |-> {i \in 1..Len(Assets[url]) : shaftTest(Assets[url][i])}]

\* model.traverse: the meshes that pass the shaft test of the four methods
shaftMeshes(url, mats) == {i \in shaftNamed[url] : isMesh(mats[i])}

updateMaterialWithOpacity(mats, url, color, colorStrength) ==
  [i \in DOMAIN mats |->
     IF i \in shaftMeshes(url, mats)
       THEN blendedMaterial(mats[i], color, colorStrength)
       ELSE mats[i]]

DefaultStrength == 17

\* updateMaterial(color): updateMaterialWithOpacity(color, 0.85)
updateMaterial(mats, url, color) ==
  updateMaterialWithOpacity(mats, url, color, DefaultStrength)

updateMaterialBright(mats, url, color, colorStrength) ==
  [i \in DOMAIN mats |->
     IF i \in shaftMeshes(url, mats)
       THEN brightMaterial(mats[i], color, colorStrength)
       ELSE mats[i]]

updateMaterialPure(mats, url, color, preserveMetalness) ==
  [i \in DOMAIN mats |->
     IF i \in shaftMeshes(url, mats)
       THEN pureMaterial(mats[i], color, preserveMetalness)
       ELSE mats[i]]

updateMaterialMetalness(mats, url, metalness) ==
  [i \in DOMAIN mats |->
     IF i \in shaftMeshes(url, mats)
       THEN metalnessMaterial(mats[i], metalness)
       ELSE mats[i]]

\* getCurrentColor: the traverse callback overwrites `color` at every mesh
\* with a standard material, so the last such mesh decides; null without one
NoColor == <<>>
getCurrentColor(loaded, mats) ==
  LET standard == {i \in DOMAIN mats : isStandard(mats[i])}
  IN  IF ~loaded \/ standard = {}
        THEN NoColor
        ELSE getHexString(mats[CHOOSE i \in standard :
                                 \A j \in standard : j <= i].color)

\* getCurrentMetalness: the callback's `return` leaves the callback only, so
\* the last qualifying mesh with a standard material decides; 0.0 without
\* one or without a model
getCurrentMetalness(loaded, url, mats) ==
  LET standard == IF loaded
                    THEN {i \in shaftMeshes(url, mats) : isStandard(mats[i])}
                    ELSE {}
  IN  IF standard = {}
        THEN 0
        ELSE mats[CHOOSE i \in standard : \A j \in standard : j <= i].metalness

(***************************************************************************)
(* A Map<string, Object3D[]>: keys in insertion order, and the parts of    *)
(* each key (indices into the traversal of the loaded model).              *)
(***************************************************************************)
EmptyMap == [keys |-> <<>>, meshes |-> [k \in {} |-> <<>>]]

MapHas(map, key) == key \in DOMAIN map.meshes

\* if (!map.has(key)) { map.set(key, []); types.push(key) }  map.get(key).push(part)
MapPush(map, key, part) ==
  IF MapHas(map, key)
    THEN [map EXCEPT !.meshes[key] = Append(@, part)]
    ELSE [keys |-> Append(map.keys, key),
          meshes |-> [k \in (DOMAIN map.meshes) \cup {key} |->
                        IF k = key THEN <<part>> ELSE map.meshes[k]]]

\* every part held by some variant of the map
MapParts(map) ==
  UNION {{map.meshes[k][j] : j \in 1..Len(map.meshes[k])} : k \in DOMAIN map.meshes}

(***************************************************************************)
(* VariantDiscoveryEngine: discoverVariations on the traversal `parts`.    *)
(***************************************************************************)
\* visitChild with two independent tests in place of if / else if
visitChildBoth(parts, i, maps) ==
  LET childName == ToLowerCase(parts[i])
      h == IF Includes(childName, kwHandle)
             THEN MapPush(maps.handles,
                          extractHandleType(parts[i], Len(maps.handles.keys)), i)
             ELSE maps.handles
      s == IF Includes(childName, kwHead)
             THEN MapPush(maps.screwheads,
                          extractScrewheadType(parts[i], Len(maps.screwheads.keys)),
                          i)
             ELSE maps.screwheads
  IN  [handles |-> h, screwheads |-> s]

\* the traverse callback on object i, from the maps built so far
visitChild(parts, i, maps) ==
  LET childName == ToLowerCase(parts[i])
  IN  IF Includes(childName, kwHandle)
        THEN [maps EXCEPT !.handles =
                MapPush(@, extractHandleType(parts[i], Len(@.keys)), i)]
        ELSE IF Includes(childName, kwHead)
          THEN [maps EXCEPT !.screwheads =
                  MapPush(@, extractScrewheadType(parts[i], Len(@.keys)), i)]
          ELSE maps

\* model.traverse over the objects i, i+1, ...
RECURSIVE traverseFrom(_, _, _)
traverseFrom(parts, i, maps) ==
  IF i > Len(parts)
    THEN maps
    ELSE traverseFrom(parts, i + 1, visitChild(parts, i, maps))

\* both maps are cleared, then filled by the traversal
discoverVariations(parts) ==
  traverseFrom(parts, 1, [handles |-> EmptyMap, screwheads |-> EmptyMap])

\* what discovery yields on each asset of the catalogue
Discovered == [url \in SceneUrls |-> discoverVariations(Assets[url])]

(***************************************************************************)
(* VisibilityManager, as functions of the visibility flags `vis` and the   *)
(* map of one category.                                                    *)
(***************************************************************************)
\* SetAll over every object of the model instead of the parts of the map
SetAllObjects(vis, map, flag) == [i \in DOMAIN vis |-> flag]

\* map.forEach(meshes => meshes.forEach(mesh => mesh.visible = flag))
SetAll(vis, map, flag) ==
  [i \in DOMAIN vis |-> IF i \in MapParts(map) THEN flag ELSE vis[i]]

hideAll(vis, map) == SetAll(vis, map, FALSE)

showAll(vis, map) == SetAll(vis, map, TRUE)

\* the value showHandleVariation / showScrewheadVariation returns
showVariationRet(loaded, map, key) == loaded /\ MapHas(map, key)

\* showVariation without the loop that hides every variation first
showVariationNoHide(vis, loaded, map, key) ==
  IF ~loaded \/ ~MapHas(map, key)
    THEN vis
    ELSE LET sel == {map.meshes[key][j] : j \in 1..Len(map.meshes[key])}
         IN  [i \in DOMAIN vis |-> IF i \in sel THEN TRUE ELSE vis[i]]

\* showVariation hiding every variation before the key is looked up
showVariationHideFirst(vis, loaded, map, key) ==
  LET hidden == SetAll(vis, map, FALSE)
  IN  IF ~loaded \/ ~MapHas(map, key)
        THEN hidden
        ELSE LET sel == {map.meshes[key][j] : j \in 1..Len(map.meshes[key])}
             IN  [i \in DOMAIN hidden |-> IF i \in sel THEN TRUE ELSE hidden[i]]

\* the flags showHandleVariation / showScrewheadVariation leaves
showVariation(vis, loaded, map, key) ==
  IF ~loaded \/ ~MapHas(map, key)
    THEN vis
    ELSE LET hidden == SetAll(vis, map, FALSE)
             sel == {map.meshes[key][j] : j \in 1..Len(map.meshes[key])}
         IN  [i \in DOMAIN hidden |-> IF i \in sel THEN TRUE ELSE hidden[i]]

\* getVisibleHandleVariations / getVisibleScrewheadVariations
getVisibleVariations(vis, map) ==
  LET shown(k) == \E j \in 1..Len(map.meshes[k]) : vis[map.meshes[k][j]]
  IN  SelectSeq(map.keys, shown)

\* Array.prototype.find: the first element satisfying P, or <<>> (undefined)
FindFirst(seq, P(_)) ==
  LET hits == SelectSeq(seq, P)
  IN  IF Len(hits) > 0 THEN hits[1] ELSE <<>>

isDefaultHandle(handle) ==
  \/ Includes(ToLowerCase(handle), <<"1">>)
  \/ Includes(ToLowerCase(handle), strOne)
  \/ ToLowerCase(handle) = strDefault

\* defaultHandle without the fall-back to the first variation
defaultHandleNoFallback(keys) == FindFirst(keys, isDefaultHandle)

defaultHandle(keys) ==
  LET found == FindFirst(keys, isDefaultHandle)
  IN  IF found = <<>> THEN keys[1] ELSE found

showDefaultHandle(vis, loaded, map) ==
  IF Len(map.keys) > 0
    THEN showVariation(hideAll(vis, map), loaded, map, defaultHandle(map.keys))
    ELSE vis

\* the first test without its "default" alternative
isFlatOnly(screwhead) == Includes(ToLowerCase(screwhead), strFlat)

isFlatScrewhead(screwhead) ==
  \/ Includes(ToLowerCase(screwhead), strFlat)
  \/ ToLowerCase(screwhead) = strDefault

isCrossScrewhead(screwhead) == Includes(ToLowerCase(screwhead), strCross)

defaultScrewhead(keys) ==
  LET flat == FindFirst(keys, isFlatScrewhead)
      cross == FindFirst(keys, isCrossScrewhead)
  IN  IF flat # <<>> THEN flat
      ELSE IF cross # <<>> THEN cross
      ELSE keys[1]

showDefaultScrewhead(vis, loaded, map) ==
  IF Len(map.keys) > 0
    THEN showVariation(hideAll(vis, map), loaded, map, defaultScrewhead(map.keys))
    ELSE vis

\* showEach that applies the first listed key only
showEachFirst(vis, loaded, map, list) ==
  IF list = <<>> THEN vis ELSE showVariation(vis, loaded, map, Head(list))

\* config.visible...Variations.forEach(v => show...Variation(v))
RECURSIVE showEach(_, _, _, _)
showEach(vis, loaded, map, list) ==
  IF list = <<>>
    THEN vis
    ELSE showEach(showVariation(vis, loaded, map, Head(list)), loaded, map,
                  Tail(list))

(***************************************************************************)
(* The config argument of loadModel.  An optional list is a record with a  *)
(* flag `present` (an absent or undefined property is falsy, an array,     *)
(* empty or not, is truthy).                                               *)
(***************************************************************************)
Absent == [present |-> FALSE, list |-> <<>>]
Given(list) == [present |-> TRUE, list |-> list]
\* modelScale, cameraPosition: whether the config carries the field
NoConfig == [color |-> NoColor, modelScale |-> FALSE,
             cameraPosition |-> FALSE, visibleHandleVariations |-> Absent,
             visibleScrewheadVariations |-> Absent]

\* the lists of at most n keys of S
RECURSIVE ListsUpTo(_, _)
ListsUpTo(S, n) ==
  IF n = 0
    THEN {<<>>}
    ELSE LET shorter == ListsUpTo(S, n - 1)
         IN  shorter \cup {Append(l, k) : l \in shorter, k \in S}

OptLists(keys) ==
  {Absent} \cup
  {Given(l) : l \in ListsUpTo({keys[j] : j \in 1..Len(keys)} \cup {UnknownKey},
                              MaxList)}

\* the configs a caller may pass with url
ConfigsFor(url) ==
  {[color |-> NoColor, modelScale |-> FALSE, cameraPosition |-> FALSE,
    visibleHandleVariations |-> h,
    visibleScrewheadVariations |-> s] :
     h \in OptLists(Discovered[url].handles.keys),
     s \in OptLists(Discovered[url].screwheads.keys)}

Configs == [url \in Urls |-> ConfigsFor(url)]

(***************************************************************************)
(* State.                                                                  *)
(***************************************************************************)
VARIABLES
  model,                \* Configurator.model: the url loaded, or NoModel
  visible,              \* mesh.visible of every object of the model
  handleVariations,     \* Configurator.handleVariations
  screwheadVariations,  \* Configurator.screwheadVariations
  inflight,             \* loads requested and not yet resolved, oldest first
  configurations,       \* the array of the server's configController
  now,                  \* Date.now() of the server
  lastConfigId,         \* localStorage "lastConfigId" of the client
  newest,               \* the load requested last, and how it resolved
  material,             \* child.material of every object of the model
  blends,               \* linear blends applied to the model since its load
  last                  \* the operation that ran last, and what it returned

vars == <<model, visible, handleVariations, screwheadVariations, inflight,
          configurations, now, lastConfigId, newest, material, blends, last>>

sceneVars ==
  <<model, visible, handleVariations, screwheadVariations, material>>

storeVars == <<configurations, now, lastConfigId>>

\* a call of loadModel(url, config) whose loader has not resolved yet
Request(url) == [url |-> url, status |-> "pending"]

\* the newest request once the loader resolved request i of the queue
Resolved(i, status) ==
  IF newest.status = "pending" /\ i = Len(inflight)
    THEN [newest EXCEPT !.status = status]
    ELSE newest

NoKey == <<>>
NoId == <<>>
Op(op, key, ret, config) ==
  [op |-> op, key |-> key, ret |-> ret, config |-> config, after |-> NoKey,
   color |-> NoColor, strength |-> 0, touched |-> {}, saved |-> <<>>,
   steps |-> <<>>]
\* after: the key of the operation before, when that was a successful select
\* of the same category, else NoKey
SelectOp(op, key, ret) ==
  [op |-> op, key |-> key, ret |-> ret, config |-> NoConfig,
   after |-> IF last.op = op /\ last.ret THEN last.key ELSE NoKey,
   color |-> NoColor, strength |-> 0, touched |-> {}, saved |-> <<>>,
   steps |-> <<>>]
\* color, strength, touched: the arguments of a material operation and the
\* parts whose material it wrote
MaterialOp(op, color, strength, touched) ==
  [op |-> op, key |-> NoKey, ret |-> TRUE, config |-> NoConfig,
   after |-> NoKey, color |-> color, strength |-> strength,
   touched |-> touched, saved |-> <<>>,
   steps |-> <<>>]
\* saved: the materials of the scene when Save composed the configuration
\* (kept by the Load that directly follows that Save)
StoreOp(op, key, ret, config, saved) ==
  [op |-> op, key |-> key, ret |-> ret, config |-> config, after |-> NoKey,
   color |-> NoColor, strength |-> 0, touched |-> {}, saved |-> saved,
   steps |-> <<>>]
NoOp == Op("none", NoKey, FALSE, NoConfig)

\* the fields of a Configurator before its first load resolves
Constructed ==
  /\ model = NoModel
  /\ visible = <<>>
  /\ material = <<>>
  /\ blends = 0
  /\ handleVariations = EmptyMap
  /\ screwheadVariations = EmptyMap
  /\ configurations = <<>>
  /\ now = 1
  /\ lastConfigId = NoId
  /\ last = NoOp

\* the constructor ends by requesting the default model
Init ==
  /\ Constructed
  /\ inflight = <<[url |-> DefaultUrl, config |-> NoConfig]>>
  /\ newest = Request(DefaultUrl)

\* a first load that applies a saved configuration: any url, any config
InitApply ==
  /\ Constructed
  /\ \E url \in Urls : \E config \in Configs[url] :
       /\ inflight = <<[url |-> url, config |-> config]>>
       /\ newest = Request(url)

Loaded == model # NoModel

getVisibleHandleVariations == getVisibleVariations(visible, handleVariations)

getVisibleScrewheadVariations ==
  getVisibleVariations(visible, screwheadVariations)

Record(op) == last' = op

\* the keys a caller may pass to a select: those of the grouping and others
KeyInputs(map) == {map.keys[j] : j \in 1..Len(map.keys)} \cup {UnknownKey}

(***************************************************************************)
(* loadModel: the request, and the two ways the loader may resolve it.     *)
(***************************************************************************)
LoadModel(url, config) ==
  /\ Len(inflight) < MaxInflight
  /\ inflight' = Append(inflight, [url |-> url, config |-> config])
  /\ newest' = Request(url)
  /\ UNCHANGED <<sceneVars, blends, last, storeVars>>

RemoveAt(seq, i) == SubSeq(seq, 1, i - 1) \o SubSeq(seq, i + 1, Len(seq))

\* the flags of gltf.scene as the loader hands it over: every object of a
\* parsed scene is visible (the default of Object3D.visible)
freshVisible(parts) == [n \in 1..Len(parts) |-> TRUE]

\* loadVisible without hideAll before the saved lists are shown
loadVisibleNoHide(fresh, d, config) ==
  LET afterHandles ==
        IF config.visibleHandleVariations.present
          THEN showEach(fresh, TRUE, d.handles,
                        config.visibleHandleVariations.list)
          ELSE showDefaultHandle(fresh, TRUE, d.handles)
  IN  IF config.visibleScrewheadVariations.present
        THEN showEach(afterHandles, TRUE, d.screwheads,
                      config.visibleScrewheadVariations.list)
        ELSE showDefaultScrewhead(afterHandles, TRUE, d.screwheads)

\* loadVisible whose screwhead branch tests the handle list of the config
loadVisibleHandleTest(fresh, d, config) ==
  LET afterHandles ==
        IF config.visibleHandleVariations.present
          THEN showEach(hideAll(fresh, d.handles), TRUE, d.handles,
                        config.visibleHandleVariations.list)
          ELSE showDefaultHandle(fresh, TRUE, d.handles)
  IN  IF config.visibleHandleVariations.present
        THEN showEach(hideAll(afterHandles, d.screwheads), TRUE, d.screwheads,
                      config.visibleScrewheadVariations.list)
        ELSE showDefaultScrewhead(afterHandles, TRUE, d.screwheads)

\* loadVisible that treats an empty list as no list
loadVisibleEmptyAsAbsent(fresh, d, config) ==
  LET afterHandles ==
        IF config.visibleHandleVariations.list # <<>>
          THEN showEach(hideAll(fresh, d.handles), TRUE, d.handles,
                        config.visibleHandleVariations.list)
          ELSE showDefaultHandle(fresh, TRUE, d.handles)
  IN  IF config.visibleScrewheadVariations.list # <<>>
        THEN showEach(hideAll(afterHandles, d.screwheads), TRUE, d.screwheads,
                      config.visibleScrewheadVariations.list)
        ELSE showDefaultScrewhead(afterHandles, TRUE, d.screwheads)

\* the flags the onLoad callback leaves, from the flags `fresh` of the asset
loadVisible(fresh, d, config) ==
  LET afterHandles ==
        IF config.visibleHandleVariations.present
          THEN showEach(hideAll(fresh, d.handles), TRUE, d.handles,
                        config.visibleHandleVariations.list)
          ELSE showDefaultHandle(fresh, TRUE, d.handles)
  IN  IF config.visibleScrewheadVariations.present
        THEN showEach(hideAll(afterHandles, d.screwheads), TRUE, d.screwheads,
                      config.visibleScrewheadVariations.list)
        ELSE showDefaultScrewhead(afterHandles, TRUE, d.screwheads)

\* if (config?.color) this.updateMaterial(config.color)
loadMaterial(fresh, url, config) ==
  IF config.color # NoColor
    THEN updateMaterial(fresh, url, config.color)
    ELSE fresh

\* the statements of the onLoad callback that run for a config, in the
\* order the callback runs them
onLoadSteps(config) ==
  <<"discoverVariations">>
    \o (IF config.modelScale THEN <<"modelScale">> ELSE <<>>)
    \o (IF config.color # NoColor THEN <<"updateMaterial">> ELSE <<>>)
    \o (IF config.cameraPosition THEN <<"cameraPosition">> ELSE <<"autoFit">>)
    \o <<"handles", "screwheads">>

\* the callback with the two selections ahead of discovery: they meet the
\* grouping of the model loaded before
LoadCompleteStale(i) ==
  /\ i \in 1..Len(inflight)
  /\ LET req == inflight[i]
         parts == Assets[req.url]
         d == Discovered[req.url]
         old == [handles |-> handleVariations,
                 screwheads |-> screwheadVariations]
     IN  /\ model' = req.url
         /\ handleVariations' = d.handles
         /\ screwheadVariations' = d.screwheads
         /\ material' = loadMaterial(freshMaterial(req.url), req.url, req.config)
         /\ blends' = IF req.config.color # NoColor THEN 1 ELSE 0
         /\ visible' = loadVisible(freshVisible(parts), old, req.config)
         /\ Record([Op("loadModel", NoKey, TRUE, req.config) EXCEPT
                      !.steps = SubSeq(onLoadSteps(req.config), 2,
                                       Len(onLoadSteps(req.config)))
                                  \o <<"discoverVariations">>])
  /\ inflight' = RemoveAt(inflight, i)
  /\ newest' = Resolved(i, "applied")
  /\ UNCHANGED storeVars

\* the onLoad callback of loader.load
LoadComplete(i) ==
  /\ i \in 1..Len(inflight)
  /\ LET req == inflight[i]
         parts == Assets[req.url]
         d == Discovered[req.url]
     IN  /\ model' = req.url
         /\ handleVariations' = d.handles
         /\ screwheadVariations' = d.screwheads
         /\ material' = loadMaterial(freshMaterial(req.url), req.url, req.config)
         /\ blends' = IF req.config.color # NoColor THEN 1 ELSE 0
         /\ visible' = loadVisible(freshVisible(parts), d, req.config)
         /\ Record([Op("loadModel", NoKey, TRUE, req.config) EXCEPT
                      !.steps = onLoadSteps(req.config)])
  /\ inflight' = RemoveAt(inflight, i)
  /\ newest' = Resolved(i, "applied")
  /\ UNCHANGED storeVars

\* a failed retrieval that drops the model loaded before
LoadFailClears(i) ==
  /\ i \in 1..Len(inflight)
  /\ inflight' = RemoveAt(inflight, i)
  /\ newest' = Resolved(i, "failed")
  /\ Record(Op("loadFail", NoKey, FALSE, NoConfig))
  /\ model' = NoModel
  /\ visible' = <<>>
  /\ handleVariations' = EmptyMap
  /\ screwheadVariations' = EmptyMap
  /\ UNCHANGED <<material, blends, storeVars>>

\* retrieval fails: loader.load was given no onError, nothing runs
LoadFail(i) ==
  /\ i \in 1..Len(inflight)
  /\ inflight' = RemoveAt(inflight, i)
  /\ newest' = Resolved(i, "failed")
  /\ Record(Op("loadFail", NoKey, FALSE, NoConfig))
  /\ UNCHANGED <<sceneVars, blends, storeVars>>

(***************************************************************************)
(* The public visibility operations.                                       *)
(***************************************************************************)
ShowHandleVariation(handleType) ==
  /\ visible' = showVariation(visible, Loaded, handleVariations, handleType)
  /\ Record(SelectOp("showHandleVariation", handleType,
                     showVariationRet(Loaded, handleVariations, handleType)))
  /\ UNCHANGED <<model, handleVariations, screwheadVariations, material,
                 blends, inflight, newest, storeVars>>

ShowScrewheadVariation(screwheadType) ==
  /\ visible' = showVariation(visible, Loaded, screwheadVariations, screwheadType)
  /\ Record(SelectOp("showScrewheadVariation", screwheadType,
                     showVariationRet(Loaded, screwheadVariations,
                                      screwheadType)))
  /\ UNCHANGED <<model, handleVariations, screwheadVariations, material,
                 blends, inflight, newest, storeVars>>

HideAllHandles ==
  /\ visible' = hideAll(visible, handleVariations)
  /\ Record(Op("hideAllHandles", NoKey, TRUE, NoConfig))
  /\ UNCHANGED <<model, handleVariations, screwheadVariations, material,
                 blends, inflight, newest, storeVars>>

ShowAllHandles ==
  /\ visible' = showAll(visible, handleVariations)
  /\ Record(Op("showAllHandles", NoKey, TRUE, NoConfig))
  /\ UNCHANGED <<model, handleVariations, screwheadVariations, material,
                 blends, inflight, newest, storeVars>>

HideAllScrewheads ==
  /\ visible' = hideAll(visible, screwheadVariations)
  /\ Record(Op("hideAllScrewheads", NoKey, TRUE, NoConfig))
  /\ UNCHANGED <<model, handleVariations, screwheadVariations, material,
                 blends, inflight, newest, storeVars>>

ShowAllScrewheads ==
  /\ visible' = showAll(visible, screwheadVariations)
  /\ Record(Op("showAllScrewheads", NoKey, TRUE, NoConfig))
  /\ UNCHANGED <<model, handleVariations, screwheadVariations, material,
                 blends, inflight, newest, storeVars>>

(***************************************************************************)
(* The configuration store of the server (configController).               *)
(***************************************************************************)
\* saveConfig: config.id = Date.now().toString(); configurations.push(config)
saveConfig(configs, body, t) ==
  Append(configs, [id |-> NatToStr(t), modelUrl |-> body.modelUrl,
                   config |-> body.config])

\* find that settles for the first stored configuration, whatever its id
findConfigAny(configs, id) == IF configs = <<>> THEN 0 ELSE 1

\* configurations.find(c => c.id === id): the index of the first, or 0
findConfig(configs, id) ==
  IF \E i \in 1..Len(configs) : configs[i].id = id
    THEN CHOOSE i \in 1..Len(configs) :
           /\ configs[i].id = id
           /\ \A j \in 1..(i - 1) : configs[j].id # id
    ELSE 0

\* the clock of the server advances
Tick ==
  /\ now < MaxClock
  /\ now' = now + 1
  /\ UNCHANGED <<sceneVars, blends, inflight, newest, configurations,
                 lastConfigId, last>>

\* GET /configurations/:id from any client
GetConfig(id) ==
  /\ LET i == findConfig(configurations, id)
     IN  Record(Op("getConfig", id, i # 0,
                   IF i # 0 THEN configurations[i].config ELSE NoConfig))
  /\ UNCHANGED <<sceneVars, blends, inflight, newest, storeVars>>

\* the server process restarts: the array of the module starts empty again
Restart ==
  /\ configurations # <<>>
  /\ configurations' = <<>>
  /\ Record(Op("restart", NoKey, TRUE, NoConfig))
  /\ UNCHANGED <<sceneVars, blends, inflight, newest, now, lastConfigId>>

\* discoverVariations without the two clear() calls: the traversal fills the
\* maps as they are
DiscoverVariationsKeep ==
  /\ IF Loaded
       THEN LET d == traverseFrom(Assets[model], 1,
                                  [handles |-> handleVariations,
                                   screwheads |-> screwheadVariations])
            IN  /\ handleVariations' = d.handles
                /\ screwheadVariations' = d.screwheads
       ELSE UNCHANGED <<handleVariations, screwheadVariations>>
  /\ Record(Op("discoverVariations", NoKey, Loaded, NoConfig))
  /\ UNCHANGED <<model, visible, material, blends, inflight, newest,
                 storeVars>>

\* discoverVariations as a public call: both maps are cleared and refilled
\* from the loaded model; without a model it returns before clearing
DiscoverVariations ==
  /\ IF Loaded
       THEN /\ handleVariations' = Discovered[model].handles
            /\ screwheadVariations' = Discovered[model].screwheads
       ELSE UNCHANGED <<handleVariations, screwheadVariations>>
  /\ Record(Op("discoverVariations", NoKey, Loaded, NoConfig))
  /\ UNCHANGED <<model, visible, material, blends, inflight, newest,
                 storeVars>>

(***************************************************************************)
(* The public material operations.  Each is a no-op before a model is      *)
(* loaded (if (this.model)).  At most MaxRecolor of them run on one loaded *)
(* model, the colour a configuration applies at load time included.        *)
(***************************************************************************)
\* the colours of two of the page's buttons, #ff0000 and #00ffff
ColorInputs == {<<255, 0, 0>>, <<0, 255, 255>>}

\* colorStrength in twentieths: 0.0, the default 0.7, 0.85 and 1.0
Strengths == {0, 14, DefaultStrength, 20}

\* the default colorStrength of updateMaterialBright, 0.9
BrightStrength == 18

\* positions of the metalness slider, in tenths
MetalnessInputs == {0, 5, 10}

\* the meshes a recolor assigns a new material to
recolored == IF Loaded THEN shaftMeshes(model, material) ELSE {}

\* the meshes updateMaterialMetalness writes the metalness of
metalnessWritten == {i \in recolored : isStandard(material[i])}

UpdateMaterialWithOpacity(color, colorStrength) ==
  /\ blends < MaxRecolor
  /\ IF Loaded
       THEN /\ material' = updateMaterialWithOpacity(material, model,
                                                     color, colorStrength)
            /\ blends' = blends + 1
       ELSE UNCHANGED <<material, blends>>
  /\ Record(MaterialOp("updateMaterialWithOpacity", color, colorStrength,
                        recolored))
  /\ UNCHANGED <<model, visible, handleVariations, screwheadVariations,
                 inflight, newest, storeVars>>

UpdateMaterialBright(color, colorStrength) ==
  /\ blends < MaxRecolor
  /\ IF Loaded
       THEN /\ material' = updateMaterialBright(material, model,
                                                color, colorStrength)
            /\ blends' = blends + 1
       ELSE UNCHANGED <<material, blends>>
  /\ Record(MaterialOp("updateMaterialBright", color, colorStrength,
                        recolored))
  /\ UNCHANGED <<model, visible, handleVariations, screwheadVariations,
                 inflight, newest, storeVars>>

\* preserveMetalness is recorded as strength 1 (true) or 0 (false)
UpdateMaterialPure(color, preserveMetalness) ==
  /\ blends < MaxRecolor
  /\ IF Loaded
       THEN /\ material' = updateMaterialPure(material, model, color,
                                              preserveMetalness)
            /\ blends' = blends + 1
       ELSE UNCHANGED <<material, blends>>
  /\ Record(MaterialOp("updateMaterialPure", color,
                        IF preserveMetalness THEN 1 ELSE 0, recolored))
  /\ UNCHANGED <<model, visible, handleVariations, screwheadVariations,
                 inflight, newest, storeVars>>

\* the metalness is recorded as strength
UpdateMaterialMetalness(metalness) ==
  /\ blends < MaxRecolor
  /\ IF Loaded
       THEN /\ material' = updateMaterialMetalness(material, model,
                                                   metalness)
            /\ blends' = blends + 1
       ELSE UNCHANGED <<material, blends>>
  /\ Record(MaterialOp("updateMaterialMetalness", NoColor, metalness,
                        metalnessWritten))
  /\ UNCHANGED <<model, visible, handleVariations, screwheadVariations,
                 inflight, newest, storeVars>>

(***************************************************************************)
(* The Save and Load buttons of the client (main.ts).                      *)
(***************************************************************************)
\* the config object the Save handler composes
snapshot ==
  [modelUrl |-> DefaultUrl,
   config |-> [color |-> getCurrentColor(Loaded, material),
               modelScale |-> Loaded,
               cameraPosition |-> TRUE,
               visibleHandleVariations |-> Given(getVisibleHandleVariations),
               visibleScrewheadVariations |->
                 Given(getVisibleScrewheadVariations)]]

\* saveBtn click: compose, POST (saveConfig on the server), remember the id
SaveClick ==
  /\ Len(configurations) < MaxSaves
  /\ configurations' = saveConfig(configurations, snapshot, now)
  /\ lastConfigId' = NatToStr(now)
  /\ Record(StoreOp("saveClick", NatToStr(now), TRUE, snapshot.config,
                     material))
  /\ UNCHANGED <<sceneVars, blends, inflight, newest, now>>

\* loadBtn click: GET the last id (getConfig on the server), then loadModel
LoadClick ==
  LET i == findConfig(configurations, lastConfigId)
  IN  IF lastConfigId = NoId \/ i = 0
        THEN /\ Record(Op("loadClick", lastConfigId, FALSE, NoConfig))
             /\ UNCHANGED <<sceneVars, blends, inflight, newest, storeVars>>
        ELSE /\ Len(inflight) < MaxInflight
             /\ inflight' = Append(inflight,
                                   [url |-> configurations[i].modelUrl,
                                    config |-> configurations[i].config])
             /\ newest' = Request(configurations[i].modelUrl)
             /\ Record(StoreOp("loadClick", lastConfigId, TRUE,
                               configurations[i].config,
                               IF last.op = "saveClick" THEN last.saved
                                                        ELSE <<>>))
             /\ UNCHANGED <<sceneVars, blends, storeVars>>

\* the timer callback of the page, 1000 ms after start-up: the two control
\* panels get a button per key the groupings hold at that moment (recorded
\* as the two lists of `config`)
SetupControls ==
  /\ Record(Op("setupControls", NoKey, TRUE,
               [NoConfig EXCEPT
                  !.visibleHandleVariations = Given(handleVariations.keys),
                  !.visibleScrewheadVariations =
                    Given(screwheadVariations.keys)]))
  /\ UNCHANGED <<sceneVars, blends, inflight, newest, storeVars>>

Next ==
  \/ \E url \in Urls : LoadModel(url, NoConfig)
  \/ \E i \in 1..MaxInflight : LoadComplete(i)
  \/ \E i \in 1..MaxInflight : LoadFail(i)
  \/ \E k \in KeyInputs(handleVariations) : ShowHandleVariation(k)
  \/ \E k \in KeyInputs(screwheadVariations) : ShowScrewheadVariation(k)
  \/ HideAllHandles
  \/ ShowAllHandles
  \/ HideAllScrewheads
  \/ ShowAllScrewheads

Spec == Init /\ [][Next]_vars

\* a configuration is applied, then only selects and hideAll are used
NextApply ==
  \/ \E i \in 1..MaxInflight : LoadComplete(i)
  \/ \E i \in 1..MaxInflight : LoadFail(i)
  \/ \E k \in KeyInputs(handleVariations) : ShowHandleVariation(k)
  \/ \E k \in KeyInputs(screwheadVariations) : ShowScrewheadVariation(k)
  \/ HideAllHandles
  \/ HideAllScrewheads

SpecApply == InitApply /\ [][NextApply]_vars

\* the handle buttons of the page (each variation button passes a key of the
\* grouping), Save and Load with the store
NextStore ==
  \/ \E i \in 1..MaxInflight : LoadComplete(i)
  \/ \E i \in 1..MaxInflight : LoadFail(i)
  \/ \E k \in DOMAIN handleVariations.meshes : ShowHandleVariation(k)
  \/ HideAllHandles
  \/ ShowAllHandles
  \/ SaveClick
  \/ LoadClick
  \/ Tick
  \/ \E t \in 1..MaxClock : GetConfig(NatToStr(t))

SpecStore == Init /\ [][NextStore]_vars

\* the store across restarts of the server: identifiers the client or any
\* caller holds may name no stored configuration
NextServer ==
  \/ \E i \in 1..MaxInflight : LoadComplete(i)
  \/ SaveClick
  \/ LoadClick
  \/ Tick
  \/ Restart
  \/ \E t \in 1..MaxClock : GetConfig(NatToStr(t))

SpecServer == Init /\ [][NextServer]_vars

\* the colours a loadModel call may carry in its config
ColorConfigs == {[NoConfig EXCEPT !.color = c] : c \in ColorInputs \cup {NoColor}}

\* a first load of any asset, with or without a colour to apply
InitMaterial ==
  /\ Constructed
  /\ \E url \in Urls : \E config \in ColorConfigs :
       /\ inflight = <<[url |-> url, config |-> config]>>
       /\ newest = Request(url)

\* the material operations on the model that load leaves
NextMaterial ==
  \/ \E i \in 1..MaxInflight : LoadComplete(i)
  \/ \E c \in ColorInputs : \E s \in Strengths : UpdateMaterialWithOpacity(c, s)
  \/ \E c \in ColorInputs : UpdateMaterialBright(c, BrightStrength)
  \/ \E c \in ColorInputs : \E p \in BOOLEAN : UpdateMaterialPure(c, p)
  \/ \E x \in MetalnessInputs : UpdateMaterialMetalness(x)

SpecMaterial == InitMaterial /\ [][NextMaterial]_vars

\* the colour buttons of the page (updateMaterialPure(color, true)) with Save
\* and Load
NextColor ==
  \/ \E i \in 1..MaxInflight : LoadComplete(i)
  \/ \E c \in ColorInputs : UpdateMaterialPure(c, TRUE)
  \/ SaveClick
  \/ LoadClick

SpecColor == Init /\ [][NextColor]_vars

\* the page: the start-up load and the timer in either order, the handle
\* buttons, Save and Load
NextClient ==
  \/ \E i \in 1..MaxInflight : LoadComplete(i)
  \/ \E i \in 1..MaxInflight : LoadFail(i)
  \/ SetupControls
  \/ \E k \in DOMAIN handleVariations.meshes : ShowHandleVariation(k)
  \/ HideAllHandles
  \/ ShowAllHandles
  \/ SaveClick
  \/ LoadClick

SpecClient == Init /\ [][NextClient]_vars

\* a first load of any scene
InitScenes ==
  /\ Constructed
  /\ \E url \in SceneUrls :
       /\ inflight = <<[url |-> url, config |-> NoConfig]>>
       /\ newest = Request(url)

\* loads of any scene, later loads of the default asset, and discovery
\* called again
NextScenes ==
  \/ LoadModel(DefaultUrl, NoConfig)
  \/ \E i \in 1..MaxInflight : LoadComplete(i)
  \/ DiscoverVariations

SpecScenes == InitScenes /\ [][NextScenes]_vars

(***************************************************************************)
(* Properties of the variant selection.                                    *)
(***************************************************************************)
\* the parts of `key` are shown and every other part of the map is hidden
OnlyShown(vis, map, key) ==
  \A k \in DOMAIN map.meshes :
    \A j \in 1..Len(map.meshes[k]) : vis[map.meshes[k][j]] = (k = key)

\* number of places part i takes in the groups of the map
Occurrences(map, i) ==
  Cardinality(UNION {{<<k, j>> : j \in {n \in 1..Len(map.meshes[k]) :
                                          map.meshes[k][n] = i}} :
                     k \in DOMAIN map.meshes})

\* C1: after a load completes without a saved list for a category, exactly
\* one variant of that category is current whenever the category has at
\* least one variant (handle and head alike).
C1_DefaultSelectsExactlyOne ==
  last.op = "loadModel" =>
    /\ (~last.config.visibleHandleVariations.present
          /\ Len(handleVariations.keys) >= 1)
         => Len(getVisibleHandleVariations) = 1
    /\ (~last.config.visibleScrewheadVariations.present
          /\ Len(screwheadVariations.keys) >= 1)
         => Len(getVisibleScrewheadVariations) = 1

C1_Witness ==
  /\ last.op = "loadModel"
  /\ ~last.config.visibleHandleVariations.present
  /\ Len(handleVariations.keys) >= 2
  /\ Len(getVisibleHandleVariations) = 1
  /\ ~last.config.visibleScrewheadVariations.present
  /\ Len(screwheadVariations.keys) >= 2
  /\ Len(getVisibleScrewheadVariations) = 1

\* C2: a select of a valid key k2 that follows a successful select of a
\* different key of the same category returns true and leaves exactly k2
\* current: every part of k2 shown, every other part of the category hidden.
C2_SecondSelectReplacesFirst ==
  /\ (/\ last.op = "showHandleVariation"
      /\ last.after # NoKey /\ last.after # last.key
      /\ MapHas(handleVariations, last.key))
       => /\ last.ret
          /\ getVisibleHandleVariations = <<last.key>>
          /\ OnlyShown(visible, handleVariations, last.key)
  /\ (/\ last.op = "showScrewheadVariation"
      /\ last.after # NoKey /\ last.after # last.key
      /\ MapHas(screwheadVariations, last.key))
       => /\ last.ret
          /\ getVisibleScrewheadVariations = <<last.key>>
          /\ OnlyShown(visible, screwheadVariations, last.key)

C2_Witness ==
  /\ last.op = "showScrewheadVariation"
  /\ last.ret
  /\ last.after # NoKey /\ last.after # last.key
  /\ MapHas(screwheadVariations, last.after)
  /\ getVisibleScrewheadVariations = <<last.key>>

\* C3: a select whose key names no variant of its category, or that runs
\* while no model is loaded, returns false and changes no visibility flag
\* of any part, so the current selection of both categories stays as it was.
C3_UnknownKeyChangesNothing ==
  [][(\/ /\ last'.op = "showHandleVariation"
         /\ ~(Loaded /\ MapHas(handleVariations, last'.key))
      \/ /\ last'.op = "showScrewheadVariation"
         /\ ~(Loaded /\ MapHas(screwheadVariations, last'.key)))
       => /\ ~last'.ret
          /\ visible' = visible
          /\ getVisibleVariations(visible', handleVariations')
               = getVisibleHandleVariations
          /\ getVisibleVariations(visible', screwheadVariations')
               = getVisibleScrewheadVariations]_vars

C3_Witness ==
  /\ last.op = "showHandleVariation"
  /\ last.key = UnknownKey
  /\ ~last.ret
  /\ Loaded
  /\ Len(getVisibleHandleVariations) >= 2
  /\ Len(getVisibleScrewheadVariations) >= 1

\* C4: saving the current selections and loading the saved configuration
\* back gives, for every category, the current selection the snapshot
\* recorded, from every state of the loaded asset, after showAll included.
C4_RoundTripSelections ==
  (/\ last.op = "loadModel"
   /\ last.config.visibleHandleVariations.present
   /\ last.config.visibleScrewheadVariations.present)
    => /\ getVisibleHandleVariations = last.config.visibleHandleVariations.list
       /\ getVisibleScrewheadVariations
            = last.config.visibleScrewheadVariations.list

\* C5: with load completions, selects and hideAll only (no showAll), each
\* category has at most one variant with a visible part.
C5_SingleSelect ==
  /\ Len(getVisibleHandleVariations) <= 1
  /\ Len(getVisibleScrewheadVariations) <= 1

C5_Witness ==
  /\ last.op = "showScrewheadVariation"
  /\ last.ret
  /\ last.after # NoKey /\ last.after # last.key
  /\ Len(handleVariations.keys) >= 2
  /\ Len(getVisibleHandleVariations) = 1
  /\ Len(getVisibleScrewheadVariations) = 1

\* every key of the list names a variant of the map
AllValid(map, list) == \A j \in 1..Len(list) : MapHas(map, list[j])

strCurved == <<"c","u","r","v","e","d">>

\* C7: a load whose configuration has a list for one category only runs the
\* default selection for the other category, whatever the supplied list
\* holds; on the screwdriver asset a configuration listing only the handle
\* "curved" shows handle "curved" and the default head "flat".
C7_MissingCategoryGetsDefault ==
  last.op = "loadModel" =>
    /\ (/\ last.config.visibleHandleVariations.present
        /\ ~last.config.visibleScrewheadVariations.present)
         => getVisibleScrewheadVariations
              = IF Len(screwheadVariations.keys) = 0
                  THEN <<>>
                  ELSE <<defaultScrewhead(screwheadVariations.keys)>>
    /\ (/\ ~last.config.visibleHandleVariations.present
        /\ last.config.visibleScrewheadVariations.present)
         => getVisibleHandleVariations
              = IF Len(handleVariations.keys) = 0
                  THEN <<>>
                  ELSE <<defaultHandle(handleVariations.keys)>>
    /\ (/\ model = DefaultUrl
        /\ last.config.visibleHandleVariations = Given(<<strCurved>>)
        /\ ~last.config.visibleScrewheadVariations.present)
         => /\ getVisibleHandleVariations = <<strCurved>>
            /\ getVisibleScrewheadVariations = <<strFlat>>

C7_Witness ==
  /\ last.op = "loadModel"
  /\ model = DefaultUrl
  /\ last.config.visibleHandleVariations = Given(<<strCurved>>)
  /\ ~last.config.visibleScrewheadVariations.present
  /\ getVisibleHandleVariations = <<strCurved>>
  /\ getVisibleScrewheadVariations = <<strFlat>>

\* the flags after a bulk operation on `map`: its parts at `flag`, the rest kept
BulkResult(map, flag) ==
  /\ DOMAIN visible' = DOMAIN visible
  /\ \A i \in DOMAIN visible :
       visible'[i] = IF i \in MapParts(map) THEN flag ELSE visible[i]

\* C8: hideAll of a category sets every part of every variant of it to
\* hidden and showAll sets every one to shown, whatever was selected; right
\* after, the current selection of the category is empty, respectively all
\* its keys in discovery order; no part of the other category changes.
C8_BulkOverride ==
  [][/\ last'.op = "hideAllHandles"
          => /\ BulkResult(handleVariations, FALSE)
             /\ getVisibleVariations(visible', handleVariations') = <<>>
     /\ last'.op = "showAllHandles"
          => /\ BulkResult(handleVariations, TRUE)
             /\ getVisibleVariations(visible', handleVariations')
                  = handleVariations.keys
     /\ last'.op = "hideAllScrewheads"
          => /\ BulkResult(screwheadVariations, FALSE)
             /\ getVisibleVariations(visible', screwheadVariations') = <<>>
     /\ last'.op = "showAllScrewheads"
          => /\ BulkResult(screwheadVariations, TRUE)
             /\ getVisibleVariations(visible', screwheadVariations')
                  = screwheadVariations.keys]_vars

C8_Witness ==
  /\ last.op = "showAllHandles"
  /\ Len(handleVariations.keys) >= 2
  /\ getVisibleHandleVariations = handleVariations.keys
  /\ Len(screwheadVariations.keys) >= 2
  /\ Len(getVisibleScrewheadVariations) = 1

\* C9: after discovery every part whose lower-cased name contains "handle"
\* is in exactly one handle group and no head group, every other part whose
\* name contains "head" is in exactly one head group and no handle group,
\* and a part matching neither keyword is in no group.
C9_GroupsPartitionParts ==
  Loaded =>
    \A i \in 1..Len(Assets[model]) :
      LET childName == ToLowerCase(Assets[model][i])
          inHandles == Occurrences(handleVariations, i)
          inHeads == Occurrences(screwheadVariations, i)
      IN  IF Includes(childName, kwHandle)
            THEN inHandles = 1 /\ inHeads = 0
            ELSE IF Includes(childName, kwHead)
                   THEN inHandles = 0 /\ inHeads = 1
                   ELSE inHandles = 0 /\ inHeads = 0

C9_Witness ==
  /\ Loaded
  /\ \E i \in 1..Len(Assets[model]) :
       /\ Includes(ToLowerCase(Assets[model][i]), kwHandle)
       /\ Includes(ToLowerCase(Assets[model][i]), kwHead)
       /\ Occurrences(handleVariations, i) = 1
  /\ \E i \in 1..Len(Assets[model]) :
       /\ Occurrences(handleVariations, i) = 0
       /\ Occurrences(screwheadVariations, i) = 0
  /\ \E k \in DOMAIN handleVariations.meshes :
       Len(handleVariations.meshes[k]) >= 2

\* C10: a get of the identifier a save returned gives the body submitted in
\* that same save, whatever was saved afterwards.
C10_ReadBackOwnBody ==
  \A i \in 1..Len(configurations) :
    LET found == findConfig(configurations, configurations[i].id)
    IN  /\ found # 0
        /\ configurations[found].modelUrl = configurations[i].modelUrl
        /\ configurations[found].config = configurations[i].config

(***************************************************************************)
(* Properties of the store and of the load pipeline.                       *)
(***************************************************************************)
\* C11: every save returns an identifier no earlier save of the same server
\* process returned, also when the clock did not advance in between.
C11_SaveIdsDistinct ==
  \A i, j \in 1..Len(configurations) :
    i # j => configurations[i].id # configurations[j].id

\* no stored configuration carries the identifier
NeverSaved(id) == \A j \in 1..Len(configurations) : configurations[j].id # id

\* C12: a get of an identifier no stored configuration carries gives the
\* not-found outcome and no body, on the server and through the Load
\* button alike, and changes neither the store nor the model, its groupings
\* and visibility, nor requests a load.
C12_UnknownIdNotFound ==
  [][(\/ last'.op = "getConfig" /\ NeverSaved(last'.key)
      \/ last'.op = "loadClick" /\ last'.key # NoId /\ NeverSaved(last'.key))
       => /\ ~last'.ret
          /\ last'.config = NoConfig
          /\ UNCHANGED <<sceneVars, inflight, configurations,
                         lastConfigId>>]_vars

C12_Witness ==
  /\ last.op = "loadClick"
  /\ last.key # NoId
  /\ NeverSaved(last.key)
  /\ ~last.ret
  /\ Loaded
  /\ lastConfigId = last.key

\* C13: once every requested load has resolved and the load requested last
\* was applied, the model, the groupings and the visibility are those of
\* the load requested last, in whatever order the loads resolved.
C13_NewestLoadWins ==
  (inflight = <<>> /\ newest.status = "applied" /\ last.op = "loadModel")
    => /\ model = newest.url
       /\ handleVariations = Discovered[newest.url].handles
       /\ screwheadVariations = Discovered[newest.url].screwheads
       /\ visible = loadVisible(freshVisible(Assets[newest.url]),
                                Discovered[newest.url], last.config)

\* C14: a load whose retrieval fails runs nothing of the completion: the
\* model loaded before, its groupings, the visibility of its parts and the
\* store stay exactly as they were.
C14_LoadFailureChangesNothing ==
  [][(last'.op = "loadFail" /\ Len(inflight') < Len(inflight))
       => UNCHANGED <<sceneVars, storeVars>>]_vars

C14_Witness ==
  /\ last.op = "loadFail"
  /\ Loaded
  /\ Len(getVisibleHandleVariations) >= 2
  /\ Len(getVisibleScrewheadVariations) >= 1

(***************************************************************************)
(* Material operations.                                                    *)
(***************************************************************************)
ExclusionKeywords == {kwHandle, kwHead, strGrip, strCylinder}
InclusionKeywords == {strShaft, strBody, strBarrel, strRod, strStem}

\* the name test as the specification words it
NameQualifies(name) ==
  \/ \A kw \in ExclusionKeywords : ~Includes(ToLowerCase(name), kw)
  \/ \E kw \in InclusionKeywords : Includes(ToLowerCase(name), kw)

\* the objects of each asset whose name passes the test
QualifyingNamed ==
  [url \in Urls |->
     {i \in 1..Len(Assets[url]) : NameQualifies(Assets[url][i])}]

\* the mesh parts of the loaded model whose name passes the test
QualifyingMeshes ==
  {i \in QualifyingNamed[model] : material[i].kind # "none"}

RecolorOps ==
  {"updateMaterialWithOpacity", "updateMaterialBright", "updateMaterialPure"}

\* a step that is one material operation on a loaded model
MaterialStep(ops) == Loaded /\ last'.op \in ops /\ blends' = blends + 1

C16_ZeroStrengthKeepsColor ==
  [][(MaterialStep({"updateMaterialWithOpacity"}) /\ last'.strength = 0)
       => \A i \in last'.touched :
            material[i].kind = "standard"
              => material'[i].color = material[i].color]_vars

\* channel mean strictly below 0.3, on channel values that stand for v / One
MeanBelowThreeTenths(c) == 10 * (c[1] + c[2] + c[3]) < 9 * One

\* the light-gray base 0xaaaaaa
LightGray == [k \in 1..3 |-> 170 * Unit]

\* c is the interpolation from base toward the colour hex by s twentieths
InterpolatedFrom(c, base, hex, s) ==
  \A k \in 1..3 :
    StrengthDen * c[k] = StrengthDen * base[k] + (hex[k] * Unit - base[k]) * s

C18_BlendPreservesOtherProperties ==
  [][MaterialStep({"updateMaterialWithOpacity"})
       => \A i \in last'.touched :
            material[i].kind = "standard"
              => /\ material'[i].metalness = material[i].metalness
                 /\ material'[i].roughness = material[i].roughness
                 /\ material'[i].map = material[i].map
                 /\ material'[i].transparent = FALSE
                 /\ material'[i].opacity = 10]_vars

\* the colour a linear blend by s twentieths toward hex gives from the base
\* colour `original`, with the light-gray base for dark originals
BlendOf(original, hex, s) ==
  LET base == IF MeanBelowThreeTenths(original) THEN LightGray ELSE original
  IN  [k \in 1..3 |-> base[k] + ((hex[k] * Unit - base[k]) * s) \div StrengthDen]

\* C19: the blend base of a qualifying part is the colour it had when the
\* model was loaded, for the first and for every later recolor until the
\* next load: a linear-blend recolor gives the colour that the same call
\* gives on the freshly loaded model.
C19_BaseCapturedOnce ==
  [][MaterialStep({"updateMaterialWithOpacity"})
       => \A i \in last'.touched :
            freshMaterial(model)[i].kind = "standard"
              => material'[i].color =
                   BlendOf(freshMaterial(model)[i].color, last'.color,
                           last'.strength)]_vars

(***************************************************************************)
(* Colour through Save and Load.                                           *)
(***************************************************************************)
Dist(a, b) == IF a >= b THEN a - b ELSE b - a

\* the mesh parts of the default asset whose name passes the test
SavedQualifying(saved) ==
  {i \in QualifyingNamed[DefaultUrl] : saved[i].kind # "none"}

\* Load directly followed a Save of a loaded model whose qualifying parts
\* were recolored by a colour button, found the configuration of that Save,
\* and its request is the only one in flight
SavedThenRequested ==
  /\ last.op = "loadClick" /\ last.ret
  /\ last.saved # <<>>
  /\ SavedQualifying(last.saved) # {}
  /\ \A i \in SavedQualifying(last.saved) :
       \E c \in ColorInputs : last.saved[i].color = Color(c)
  /\ last.config.color = getCurrentColor(TRUE, last.saved)
  /\ inflight = <<[url |-> DefaultUrl, config |-> last.config]>>

\* C20: saving a model whose shaft region was recolored and applying the
\* snapshot leaves every qualifying part, per channel, within 1 - 0.85 of
\* its colour before the save.
C20_ColorRoundTrip ==
  [][(SavedThenRequested /\ inflight' = <<>> /\ last'.op = "loadModel")
       => \A i \in SavedQualifying(last.saved) : \A k \in 1..3 :
            StrengthDen * Dist(material'[i].color[k], last.saved[i].color[k])
              <= (StrengthDen - DefaultStrength) * One]_vars

(***************************************************************************)
(* The getters for colour and metalness.                                   *)
(***************************************************************************)
\* the 8-bit channels of a colour, as getHexString prints them
HexOf(c) == [k \in 1..3 |-> (2 * c[k] + Unit) \div (2 * Unit)]

\* the first element of a non-empty set of traversal positions
First(S) == CHOOSE i \in S : \A j \in S : i <= j

\* C21: the colour Save records is the colour of the first qualifying
\* (shaft-region) part in traversal order, or null when there is none.
C21_SnapshotColorOfFirstShaftPart ==
  last.op = "saveClick"
    => last.config.color =
         IF last.saved = <<>> \/ SavedQualifying(last.saved) = {}
           THEN NoColor
           ELSE HexOf(last.saved[First(SavedQualifying(last.saved))].color)

\* C22: getCurrentMetalness returns the metalness of the first qualifying
\* part in traversal order (of those with a MeshStandardMaterial, which
\* alone carry one), or 0 when there is none or no model is loaded.
C22_MetalnessOfFirstShaftPart ==
  getCurrentMetalness(Loaded, model, material) =
    IF ~Loaded \/ {i \in QualifyingMeshes : material[i].kind = "standard"} = {}
      THEN 0
      ELSE material[First({i \in QualifyingMeshes :
                             material[i].kind = "standard"})].metalness

(***************************************************************************)
(* Default selection of the head category.                                 *)
(***************************************************************************)
\* positions of the keys that contain kw, lower-cased
KeysWith(keys, kw) ==
  {j \in 1..Len(keys) : Includes(ToLowerCase(keys[j]), kw)}

\* positions of the keys equal to "default", lower-cased
KeysDefault(keys) == {j \in 1..Len(keys) : ToLowerCase(keys[j]) = strDefault}

\* the key at the first position of `preferred`, else at the first of
\* `second`, else at index 0
PolicyKey(keys, preferred, second) ==
  keys[IF preferred # {} THEN First(preferred)
       ELSE IF second # {} THEN First(second)
       ELSE 1]

Rank(step) ==
  CASE step = "discoverVariations" -> 1
    [] step = "modelScale" -> 2
    [] step = "updateMaterial" -> 3
    [] step \in {"cameraPosition", "autoFit"} -> 4
    [] step = "handles" -> 5
    [] step = "screwheads" -> 6

StepsOf(steps) == {steps[j] : j \in 1..Len(steps)}

\* the keys of a category that have a visible part are among those listed
ShownWithin(shown, list) ==
  \A j \in 1..Len(shown) : \E n \in 1..Len(list) : list[n] = shown[j]

\* C24: a load completion is one step; in it discovery runs once and first,
\* then scale, colour (blend at 0.85), viewpoint (saved position, else
\* auto-fit), handle selection, head selection in that order; the colour
\* and the selections are those of the new model's grouping, and no state
\* between discovery and the end of the sequence is ever visible to another
\* operation: a loaded model always has the grouping of its own discovery.
C24_LoadSequence ==
  /\ Loaded => /\ handleVariations = Discovered[model].handles
               /\ screwheadVariations = Discovered[model].screwheads
  /\ last.op = "loadModel"
       => /\ Len(last.steps) >= 4
          /\ last.steps[1] = "discoverVariations"
          /\ \A j \in 1..(Len(last.steps) - 1) :
               Rank(last.steps[j]) < Rank(last.steps[j + 1])
          /\ {"handles", "screwheads"} \subseteq StepsOf(last.steps)
          /\ ("modelScale" \in StepsOf(last.steps)) = last.config.modelScale
          /\ ("updateMaterial" \in StepsOf(last.steps))
               = (last.config.color # NoColor)
          /\ ("cameraPosition" \in StepsOf(last.steps))
               = last.config.cameraPosition
          /\ ("autoFit" \in StepsOf(last.steps)) = ~last.config.cameraPosition
          /\ last.config.color # NoColor
               => \A i \in QualifyingMeshes :
                    freshMaterial(model)[i].kind = "standard"
                      => material[i].color =
                           BlendOf(freshMaterial(model)[i].color,
                                   last.config.color, 17)
          /\ IF last.config.visibleHandleVariations.present
               THEN ShownWithin(getVisibleHandleVariations,
                                last.config.visibleHandleVariations.list)
               ELSE Len(handleVariations.keys) >= 1
                      => Len(getVisibleHandleVariations) = 1
          /\ IF last.config.visibleScrewheadVariations.present
               THEN ShownWithin(getVisibleScrewheadVariations,
                                last.config.visibleScrewheadVariations.list)
               ELSE Len(screwheadVariations.keys) >= 1
                      => Len(getVisibleScrewheadVariations) = 1

\* a load completed for a saved configuration that carries scale, colour,
\* viewpoint and both lists, and one of its handle keys is hidden
C24_Witness ==
  /\ last.op = "loadModel"
  /\ last.steps = <<"discoverVariations", "modelScale", "updateMaterial",
                    "cameraPosition", "handles", "screwheads">>
  /\ last.config.visibleHandleVariations.present
  /\ last.config.visibleScrewheadVariations.present
  /\ Len(getVisibleHandleVariations) < Len(handleVariations.keys)

(***************************************************************************)
(* Discovery run again.                                                    *)
(***************************************************************************)
\* the objects of a scene whose lower-cased name contains kw
NamedWith(parts, kw) ==
  {i \in 1..Len(parts) : Includes(ToLowerCase(parts[i]), kw)}

\* per scene, the objects named with "handle" and those named with "head"
\* and not with "handle"
HandleNamed == [url \in SceneUrls |-> NamedWith(Assets[url], kwHandle)]
HeadNamed ==
  [url \in SceneUrls |->
     NamedWith(Assets[url], kwHead) \ NamedWith(Assets[url], kwHandle)]

\* C25: discovery called again on the loaded model leaves the ordered key
\* lists and the parts per variant as the first run left them and changes no
\* visibility; the groups of a loaded model hold parts of that model only,
\* each part of the category once.
C25_DiscoveryIdempotent ==
  [][/\ (Loaded /\ last'.op = "discoverVariations")
          => UNCHANGED <<handleVariations, screwheadVariations, visible>>
     /\ (Loaded' /\ last'.op \in {"discoverVariations", "loadModel"})
          => /\ MapParts(handleVariations') = HandleNamed[model']
             /\ MapParts(screwheadVariations') = HeadNamed[model']
             /\ \A i \in 1..Len(Assets[model']) :
                  /\ Occurrences(handleVariations', i) <= 1
                  /\ Occurrences(screwheadVariations', i) <= 1]_vars

\* discovery was called again on a loaded scene (handle, HANDLE, head) whose
\* grouping holds the synthesized keys variation_1, variation_2 and type_1
C25_Witness ==
  /\ Loaded
  /\ last.op = "discoverVariations"
  /\ last.ret
  /\ handleVariations.keys = <<strVariation \o <<"1">>, strVariation \o <<"2">>>>
  /\ screwheadVariations.keys = <<strType \o <<"1">>>>

\* C26: no recolor and no setMetalness changes the material of a part that
\* discovery placed in a handle or a screwhead group.
C26_GroupedPartsKeepMaterial ==
  [][MaterialStep(RecolorOps \cup {"updateMaterialMetalness"})
       => \A i \in MapParts(handleVariations) \cup MapParts(screwheadVariations) :
            material'[i] = material[i]]_vars

(***************************************************************************)
(* The variation controls of the page.                                     *)
(***************************************************************************)
\* C27: when the variation controls are built the start-up load has
\* completed, and the buttons list exactly the variants of the loaded asset.
C27_ControlsBuiltAfterLoad ==
  last.op = "setupControls"
    => /\ Loaded
       /\ last.config.visibleHandleVariations.list
            = Discovered[DefaultUrl].handles.keys
       /\ last.config.visibleScrewheadVariations.list
            = Discovered[DefaultUrl].screwheads.keys

(***************************************************************************)
(* Bright mode.                                                            *)
(***************************************************************************)
\* pure white, 0xffffff
White == [k \in 1..3 |-> One]

\* the roughness bright mode leaves on a part, in tenths: the prior
\* roughness of a standard material with 0.2 as a floor, and 0.3 where the
\* prior roughness is 0 or the material is of another kind
BrightRoughness(mat) ==
  IF mat.kind = "standard" /\ mat.roughness # 0
    THEN (IF mat.roughness < 2 THEN 2 ELSE mat.roughness)
    ELSE 3

\* C28 (as stated): bright mode sets the colour of each qualifying part to
\* the interpolation from white toward the target by strength, metalness to
\* 0 and roughness to no more than 0.3.
C28_Original ==
  [][MaterialStep({"updateMaterialBright"})
       => \A i \in QualifyingMeshes :
            /\ InterpolatedFrom(material'[i].color, White,
                                last'.color, last'.strength)
            /\ material'[i].metalness = 0
            /\ material'[i].roughness <= 3]_vars

\* C28 (amended): bright mode sets the colour of each qualifying part to the
\* interpolation from white toward the target by strength, whatever the
\* prior colour, and metalness to 0; roughness is the prior roughness raised
\* to at least 0.2, and 0.3 where the part had roughness 0 or no standard
\* material.
C28_BrightMode ==
  [][MaterialStep({"updateMaterialBright"})
       => \A i \in QualifyingMeshes :
            /\ InterpolatedFrom(material'[i].color, White,
                                last'.color, last'.strength)
            /\ material'[i].metalness = 0
            /\ material'[i].roughness = BrightRoughness(material[i])]_vars

\* the first recolor after a load was a bright one on a part that came with
\* metalness above 0 and roughness above 0.3 and keeps that roughness, and
\* on a part that came with roughness below 0.2 and now has 0.2
C28_Witness ==
  /\ Loaded
  /\ last.op = "updateMaterialBright"
  /\ blends = 1
  /\ \E i \in QualifyingMeshes :
       LET original == freshMaterial(model)[i]
       IN  /\ original.kind = "standard"
           /\ original.metalness > 0
           /\ original.roughness > 3
           /\ material[i].roughness = original.roughness
           /\ material[i].metalness = 0
           /\ material[i].color # original.color
  /\ \E i \in QualifyingMeshes :
       /\ freshMaterial(model)[i].roughness = 1
       /\ material[i].roughness = 2

(***************************************************************************)
(* Synthesized keys.                                                       *)
(***************************************************************************)
\* the parts of the variant `key`
PartsOf(map, key) == {map.meshes[key][j] : j \in 1..Len(map.meshes[key])}

\* the keys of the map that hold a part visited before part i
KeysBefore(map, i) ==
  {k \in DOMAIN map.meshes : \E j \in PartsOf(map, k) : j < i}

\* every part of the map whose name is just the keyword kw, in any case,
\* is held by the key prefix_<n>, n one more than the number of keys the
\* category had when the part was visited
SynthesizedKeys(map, kw, prefix) ==
  \A k \in DOMAIN map.meshes : \A i \in PartsOf(map, k) :
    ToLowerCase(Assets[model][i]) = kw
      => k = prefix \o NatToStr(Cardinality(KeysBefore(map, i)) + 1)

\* C29: after discovery a part whose name is just the category keyword, in
\* any case, is held by the key variation_<n> (handle) or type_<n> (head),
\* n being one more than the number of distinct keys discovered in that
\* category before the part was visited in this run.
C29_SynthesizedKeys ==
  Loaded
    => /\ SynthesizedKeys(handleVariations, kwHandle, strVariation)
       /\ SynthesizedKeys(screwheadVariations, kwHead, strType)

\* a load grouped a scene with Head_Flat and a later part named head, which
\* got type_2, and a part named handle, which got variation_1
C29_Witness ==
  /\ Loaded
  /\ last.op = "loadModel"
  /\ screwheadVariations.keys = <<strFlat, strType \o <<"2">>>>
  /\ handleVariations.keys = <<strVariation \o <<"1">>>>

(***************************************************************************)
(* Lists without a key of the asset.                                       *)
(***************************************************************************)
\* the list is given and none of its entries names a variant of the map
NoneValid(map, opt) ==
  /\ opt.present
  /\ \A j \in 1..Len(opt.list) : ~MapHas(map, opt.list[j])

\* C30: a load whose configuration has a list for a category that is empty
\* or holds only keys the grouping does not know leaves every part of that
\* category hidden, so no variant of it is visible and no default is shown.
C30_NoValidKeyShowsNothing ==
  last.op = "loadModel" =>
    /\ NoneValid(handleVariations, last.config.visibleHandleVariations)
         => /\ getVisibleHandleVariations = <<>>
            /\ \A i \in MapParts(handleVariations) : ~visible[i]
    /\ NoneValid(screwheadVariations, last.config.visibleScrewheadVariations)
         => /\ getVisibleScrewheadVariations = <<>>
            /\ \A i \in MapParts(screwheadVariations) : ~visible[i]

\* a load of an asset with handles and screwheads was given an empty handle
\* list and a screwhead list of one unknown key, and shows neither
C30_Witness ==
  /\ last.op = "loadModel"
  /\ Loaded
  /\ Len(handleVariations.keys) >= 2
  /\ Len(screwheadVariations.keys) >= 1
  /\ last.config.visibleHandleVariations = Given(<<>>)
  /\ last.config.visibleScrewheadVariations = Given(<<UnknownKey>>)
  /\ getVisibleHandleVariations = <<>>
  /\ getVisibleScrewheadVariations = <<>>

====
